---------------------------- MODULE Spec2Model ----------------------------
(***************************************************************************)
(* A model of Imperva_IP.py: the paginated incident fetcher, the           *)
(* extractor, the read-merge-rewrite persistence functions, the watermark  *)
(* store and the main program that chains them.                            *)
(*                                                                         *)
(* Strings that the program strips or sorts are sequences of code points   *)
(* (32 = space, 97 = "a", 98 = "b"), so that str.strip() and sorted() are  *)
(* computed, not assumed.  Python dicts are functions whose DOMAIN is the  *)
(* key set; "k in d" is k \in DOMAIN d.  Text files are sequences of       *)
(* lines (entries never contain a newline).                                *)
(***************************************************************************)
EXTENDS Integers, Sequences, FiniteSets, TLC

VARIABLES
  ex,              \* harness of extract_data_from_incidents: inputs and results
  env,             \* environment: IMPERVA_API_ID / IMPERVA_API_KEY set or not
  pc,              \* position of the running program
  page,            \* fetch loop: page counter
  more_incidents,  \* fetch loop: loop flag
  all_incidents,   \* fetch loop: accumulated incidents
  since_timestamp, \* fetch: the since_timestamp argument (<<>> is None, <<t>> is t)
  page_size,       \* fetch: the page_size argument
  requests,        \* the HTTP requests issued by the current call, in order
  responses,       \* the HTTP responses received by the current call, in order
  raised,          \* TRUE when the current call or run ended by raising
  ipFiles,         \* data/*_ip_data.txt        : filename -> lines
  detFiles,        \* data/*_ip_detailed.json   : filename -> JSON text
  domFiles,        \* data/*_domain_data.txt    : filename -> lines
  tsFiles,         \* data/*last_query_timestamp.txt : filename -> text
  reports,         \* reports/*_summary.txt     : filename -> counts
  now,             \* wall clock, milliseconds
  hist             \* what the last operation was, with the state before it

vars == <<ex, env, pc, page, more_incidents, all_incidents, since_timestamp,
          page_size, requests, responses, raised, ipFiles, detFiles,
          domFiles, tsFiles, reports, now, hist>>

fetchVars == <<pc, page, more_incidents, all_incidents, since_timestamp,
               page_size, requests, responses, raised>>
fileVars == <<ipFiles, detFiles, domFiles, tsFiles, reports>>

(***************************************************************************)
(* Bounds                                                                  *)
(***************************************************************************)
MaxLen == 2        \* longest incident sequence given to the extractor
MaxPages == 2      \* the server has at most this many full pages
MaxPageSize == 2   \* largest page_size argument tried
MaxNow == 2000     \* the clock stops here
MaxCalls == 2      \* direct save calls per behaviour

(***************************************************************************)
(* Strings                                                                 *)
(***************************************************************************)
SP == 32
EmptyDict == [k \in {} |-> {}]

RECURSIVE lstrip(_)
lstrip(s) == IF s # <<>> /\ Head(s) = SP THEN lstrip(Tail(s)) ELSE s

RECURSIVE rstrip(_)
rstrip(s) ==
  IF s # <<>> /\ s[Len(s)] = SP THEN rstrip(SubSeq(s, 1, Len(s) - 1)) ELSE s

\* str.strip()
strip(s) == rstrip(lstrip(s))

\* truth value of a str: non-empty
Truthy(s) == s # <<>>

\* a < b for str: code point order, a proper prefix first
RECURSIVE StrLess(_, _)
StrLess(a, b) ==
  IF b = <<>> THEN FALSE
  ELSE IF a = <<>> THEN TRUE
  ELSE IF Head(a) # Head(b) THEN Head(a) < Head(b)
  ELSE StrLess(Tail(a), Tail(b))

\* sorted(S) for a set of str
RECURSIVE sorted(_)
sorted(S) ==
  IF S = {} THEN <<>>
  ELSE LET m == CHOOSE x \in S : \A y \in S \ {x} : StrLess(x, y)
       IN  <<m>> \o sorted(S \ {m})

Range(f) == {f[i] : i \in DOMAIN f}

(***************************************************************************)
(* Incidents                                                               *)
(***************************************************************************)
Tags == {"bot", "tor"}

\* the incident records the extractor is tried on
Incidents ==
  { [dominant_attack_ip |-> [ip |-> <<97>>, reputation |-> <<"bot">>],
     dominant_attacked_host |-> [value |-> <<97>>]],
    [dominant_attack_ip |-> [ip |-> <<97>>, reputation |-> <<"tor", "tor">>]],
    [dominant_attack_ip |-> [ip |-> <<97>>],
     dominant_attacked_host |-> [value |-> <<>>]],
    [dominant_attack_ip |-> [ip |-> <<SP>>, reputation |-> <<"tor">>],
     dominant_attacked_host |-> [value |-> <<98>>]],
    [dominant_attacked_host |-> [value |-> <<97, SP>>]],
    [dominant_attack_ip |-> [ip |-> <<SP, 97>>, reputation |-> <<"tor">>],
     dominant_attacked_host |-> EmptyDict] }

SeqsUpTo(S, n) == UNION {[1..k -> S] : k \in 0..n}

\* a JSON value that is an array, and one that is a single object
JList(items) == [kind |-> "list", items |-> items]
JDict(obj) == [kind |-> "dict", obj |-> obj]

(***************************************************************************)
(* extract_data_from_incidents                                             *)
(***************************************************************************)
\* dict assignment d[k] = v
Put(d, k, v) == [x \in DOMAIN d \cup {k} |-> IF x = k THEN v ELSE d[x]]

\* dict.get(k, default)
Get(d, k, default) == IF k \in DOMAIN d THEN d[k] ELSE default

\* one iteration of the for loop, on the pair (ip_data, domains)
ExtractStepKeepFirst(acc, incident) ==
  LET hasIp == /\ "dominant_attack_ip" \in DOMAIN incident
               /\ "ip" \in DOMAIN incident.dominant_attack_ip
      ip == incident.dominant_attack_ip.ip
      hasDom == /\ "dominant_attacked_host" \in DOMAIN incident
                /\ "value" \in DOMAIN incident.dominant_attacked_host
      domain == incident.dominant_attacked_host.value
  IN  [ip_data |->
         IF hasIp /\ Truthy(ip) /\ Truthy(strip(ip)) /\ ip \notin DOMAIN acc.ip_data
         THEN Put(acc.ip_data, ip,
                  Get(incident.dominant_attack_ip, "reputation", <<>>))
         ELSE acc.ip_data,
       domains |->
         IF hasDom /\ Truthy(domain) /\ Truthy(strip(domain))
         THEN acc.domains \cup {domain}
         ELSE acc.domains]

ExtractStep(acc, incident) ==
  LET hasIp == /\ "dominant_attack_ip" \in DOMAIN incident
               /\ "ip" \in DOMAIN incident.dominant_attack_ip
      ip == incident.dominant_attack_ip.ip
      hasDom == /\ "dominant_attacked_host" \in DOMAIN incident
                /\ "value" \in DOMAIN incident.dominant_attacked_host
      domain == incident.dominant_attacked_host.value
  IN  [ip_data |->
         IF hasIp /\ Truthy(ip) /\ Truthy(strip(ip))
         THEN Put(acc.ip_data, ip,
                  Get(incident.dominant_attack_ip, "reputation", <<>>))
         ELSE acc.ip_data,
       domains |->
         IF hasDom /\ Truthy(domain) /\ Truthy(strip(domain))
         THEN acc.domains \cup {domain}
         ELSE acc.domains]

RECURSIVE ExtractLoop(_, _)
ExtractLoop(acc, incidents) ==
  IF incidents = <<>> THEN acc
  ELSE ExtractLoop(ExtractStep(acc, Head(incidents)), Tail(incidents))

\* the argument is a JSON value: a list of incidents or a single incident
extract_data_from_incidents(incidents) ==
  LET items == IF incidents.kind = "dict" THEN <<incidents.obj>>
               ELSE incidents.items
  IN  ExtractLoop([ip_data |-> EmptyDict, domains |-> {}], items)

(***************************************************************************)
(* Extractor harness: inputs A and B, then one application                 *)
(***************************************************************************)
NoEx == [applied |-> FALSE, A |-> <<>>, B |-> <<>>,
         rA |-> [ip_data |-> EmptyDict, domains |-> {}],
         rB |-> [ip_data |-> EmptyDict, domains |-> {}],
         rAB |-> [ip_data |-> EmptyDict, domains |-> {}]]

\* the variables this harness leaves alone, at their values after construction
IdleRest ==
  /\ env = [IMPERVA_API_ID |-> TRUE, IMPERVA_API_KEY |-> TRUE]
  /\ pc = "idle" /\ page = 1 /\ more_incidents = TRUE /\ all_incidents = <<>>
  /\ since_timestamp = <<>> /\ page_size = 1
  /\ requests = <<>> /\ responses = <<>> /\ raised = FALSE
  /\ ipFiles = EmptyDict /\ detFiles = EmptyDict /\ domFiles = EmptyDict
  /\ tsFiles = EmptyDict /\ reports = EmptyDict
  /\ now = 1000
  /\ hist = [op |-> "none"]

InitExtract ==
  /\ ex \in {[NoEx EXCEPT !.A = a, !.B = b] :
               a \in SeqsUpTo(Incidents, MaxLen), b \in SeqsUpTo(Incidents, MaxLen)}
  /\ IdleRest

ApplyExtract ==
  /\ ~ex.applied
  /\ ex' = [ex EXCEPT !.applied = TRUE,
                      !.rA = extract_data_from_incidents(JList(ex.A)),
                      !.rB = extract_data_from_incidents(JList(ex.B)),
                      !.rAB = extract_data_from_incidents(JList(ex.A \o ex.B))]
  /\ UNCHANGED <<env, fetchVars, fileVars, now, hist>>

NextExtract == ApplyExtract

SpecExtract == InitExtract /\ [][NextExtract]_vars

(***************************************************************************)
(* C9: extraction is compositional over concatenation.  The domain set and *)
(* the IP key set of extract(A ++ B) are the unions of those of extract(A) *)
(* and extract(B); the reputation of each IP is the one of the last        *)
(* incident of A ++ B naming it (B wins over A, a missing reputation is    *)
(* the empty list); incidents without a non-blank ip or value contribute   *)
(* nothing.                                                                *)
(***************************************************************************)
IsBlank(s) == \A i \in DOMAIN s : s[i] = SP

NamesIp(incident, ip) ==
  /\ "dominant_attack_ip" \in DOMAIN incident
  /\ "ip" \in DOMAIN incident.dominant_attack_ip
  /\ incident.dominant_attack_ip.ip = ip
  /\ ~IsBlank(ip)

NamesDomain(incident, d) ==
  /\ "dominant_attacked_host" \in DOMAIN incident
  /\ "value" \in DOMAIN incident.dominant_attacked_host
  /\ incident.dominant_attacked_host.value = d
  /\ ~IsBlank(d)

LastRep(s, ip) ==
  LET I == {i \in DOMAIN s : NamesIp(s[i], ip)}
      last == CHOOSE i \in I : \A j \in I : j <= i
      a == s[last].dominant_attack_ip
  IN  IF "reputation" \in DOMAIN a THEN a.reputation ELSE <<>>

AllStrs ==
  {<<>>, <<SP>>, <<97>>, <<98>>, <<SP, 97>>, <<97, SP>>, <<SP, SP>>,
   <<97, 98>>, <<SP, 97, SP>>}

C9_ExtractCompositional ==
  ex.applied =>
    LET AB == ex.A \o ex.B
        ipA == ex.rA.ip_data
        ipB == ex.rB.ip_data
        ipAB == ex.rAB.ip_data
    IN  /\ ex.rAB.domains = ex.rA.domains \cup ex.rB.domains
        /\ DOMAIN ipAB = DOMAIN ipA \cup DOMAIN ipB
        /\ \A ip \in DOMAIN ipAB :
             /\ ipAB[ip] = LastRep(AB, ip)
             /\ ipAB[ip] = IF ip \in DOMAIN ipB THEN ipB[ip] ELSE ipA[ip]
        /\ DOMAIN ipAB =
             {ip \in AllStrs : \E i \in DOMAIN AB : NamesIp(AB[i], ip)}
        /\ ex.rAB.domains =
             {d \in AllStrs : \E i \in DOMAIN AB : NamesDomain(AB[i], d)}

\* A and B both name the IP "a" with different reputations, and A ++ B holds
\* an incident with a blank ip and one with a blank value
C9_Witness ==
  /\ ex.applied
  /\ <<97>> \in DOMAIN ex.rA.ip_data \cap DOMAIN ex.rB.ip_data
  /\ ex.rA.ip_data[<<97>>] # ex.rB.ip_data[<<97>>]
  /\ \E i \in DOMAIN (ex.A \o ex.B) :
       LET inc == (ex.A \o ex.B)[i]
       IN  /\ "dominant_attack_ip" \in DOMAIN inc
           /\ "ip" \in DOMAIN inc.dominant_attack_ip
           /\ IsBlank(inc.dominant_attack_ip.ip)
  /\ \E i \in DOMAIN (ex.A \o ex.B) :
       LET inc == (ex.A \o ex.B)[i]
       IN  /\ "dominant_attacked_host" \in DOMAIN inc
           /\ "value" \in DOMAIN inc.dominant_attacked_host
           /\ IsBlank(inc.dominant_attacked_host.value)

(***************************************************************************)
(* HTTP                                                                    *)
(***************************************************************************)
CAID == "CLID"
OK == 200
ServerError == 500

\* truth value of an optional int: neither None nor 0
TruthyInt(opt) == opt # <<>> /\ opt[1] # 0

\* the incidents the server holds
ServerIncidents ==
  { [dominant_attack_ip |-> [ip |-> <<97>>, reputation |-> <<"bot">>],
     dominant_attacked_host |-> [value |-> <<97>>]],
    [dominant_attack_ip |-> [ip |-> <<98>>, reputation |-> <<"tor">>],
     dominant_attacked_host |-> [value |-> <<SP>>]] }

\* response.json() of a 200 response made a list: a single object becomes a
\* list of one
Normalise(json) == IF json.kind = "dict" THEN <<json.obj>> ELSE json.items

Full(response, ps) ==
  response.status_code = OK /\ Len(Normalise(response.json)) >= ps

\* what the server may answer to a request for page p with page size ps; it
\* has at most MaxPages full pages
ServerResponses(ps) ==
  {[status_code |-> ServerError]}
    \cup {[status_code |-> OK, json |-> JList(s)] : s \in SeqsUpTo(ServerIncidents, ps)}
    \cup {[status_code |-> OK, json |-> JDict(i)] : i \in ServerIncidents}

Responses(p, ps) ==
  IF p < MaxPages THEN ServerResponses(ps)
  ELSE {r \in ServerResponses(ps) : ~Full(r, ps)}

\* the params and headers of the request of one loop iteration
PageRequest(p, ps, since) ==
  [params |-> IF TruthyInt(since)
              THEN [caid |-> CAID, page |-> p, page_size |-> ps, from |-> since[1]]
              ELSE [caid |-> CAID, page |-> p, page_size |-> ps],
   headers |-> [x_API_Id |-> env.IMPERVA_API_ID, x_API_Key |-> env.IMPERVA_API_KEY]]

(***************************************************************************)
(* fetch_all_incidents_with_pagination                                     *)
(***************************************************************************)
\* the body of the while loop after the request: the new loop state
FetchIterationOnError(st, response, ps) ==
  IF response.status_code = OK
  THEN LET incidents == Normalise(response.json)
       IN  [all_incidents |-> st.all_incidents \o incidents,
            more_incidents |-> ~(Len(incidents) < ps),
            page |-> IF Len(incidents) < ps THEN st.page ELSE st.page + 1]
  ELSE [all_incidents |-> st.all_incidents,
        more_incidents |-> st.page < MaxPages,
        page |-> IF st.page < MaxPages THEN st.page + 1 ELSE st.page]

FetchIteration(st, response, ps) ==
  IF response.status_code = OK
  THEN LET incidents == Normalise(response.json)
       IN  [all_incidents |-> st.all_incidents \o incidents,
            more_incidents |-> ~(Len(incidents) < ps),
            page |-> IF Len(incidents) < ps THEN st.page ELSE st.page + 1]
  ELSE [all_incidents |-> st.all_incidents,
        more_incidents |-> FALSE,
        page |-> st.page]

\* entry of the function: lines 362-364
StartFetch(since, ps) ==
  /\ all_incidents' = <<>>
  /\ page' = 1
  /\ more_incidents' = TRUE
  /\ since_timestamp' = since
  /\ page_size' = ps
  /\ requests' = <<>>
  /\ responses' = <<>>
  /\ raised' = FALSE

\* one iteration of the while loop; the function returns when the flag drops
FetchPage ==
  /\ pc = "fetch"
  /\ more_incidents
  /\ \E response \in Responses(page, page_size) :
       LET st == FetchIteration([all_incidents |-> all_incidents,
                                 more_incidents |-> more_incidents,
                                 page |-> page], response, page_size)
       IN  /\ requests' = Append(requests, PageRequest(page, page_size, since_timestamp))
           /\ responses' = Append(responses, response)
           /\ all_incidents' = st.all_incidents
           /\ more_incidents' = st.more_incidents
           /\ page' = st.page
           /\ pc' = IF st.more_incidents THEN "fetch" ELSE "fetched"
  /\ UNCHANGED <<ex, env, since_timestamp, page_size, raised, fileVars, now, hist>>

\* a direct call of fetch_all_incidents_with_pagination
CallFetch ==
  /\ pc \in {"idle", "fetched", "got"}
  /\ \E since \in {<<>>, <<0>>, <<1700>>}, ps \in 1..MaxPageSize :
       StartFetch(since, ps)
  /\ pc' = "fetch"
  /\ UNCHANGED <<ex, env, fileVars, now, hist>>

(***************************************************************************)
(* get_imperva_incidents                                                   *)
(***************************************************************************)
CallGetImpervaIncidents ==
  /\ pc \in {"idle", "fetched", "got"}
  /\ pc' = "got"
  /\ \E since \in {<<>>, <<1700>>} :
       /\ since_timestamp' = since
       /\ IF ~env.IMPERVA_API_ID \/ ~env.IMPERVA_API_KEY
          THEN /\ raised' = TRUE
               /\ requests' = <<>>
               /\ responses' = <<>>
          ELSE /\ raised' = FALSE
               /\ requests' =
                    <<[params |-> IF TruthyInt(since)
                                  THEN [caid |-> CAID, from |-> since[1]]
                                  ELSE [caid |-> CAID],
                       headers |-> [x_API_Id |-> env.IMPERVA_API_ID,
                                    x_API_Key |-> env.IMPERVA_API_KEY]]>>
               /\ \E response \in ServerResponses(MaxPageSize) : responses' = <<response>>
  /\ UNCHANGED <<ex, env, page, more_incidents, all_incidents, page_size,
                 fileVars, now, hist>>

InitFetch ==
  /\ ex = NoEx
  /\ env \in [{"IMPERVA_API_ID", "IMPERVA_API_KEY"} -> BOOLEAN]
  /\ pc = "idle" /\ page = 1 /\ more_incidents = TRUE /\ all_incidents = <<>>
  /\ since_timestamp = <<>> /\ page_size = 1
  /\ requests = <<>> /\ responses = <<>> /\ raised = FALSE
  /\ ipFiles = EmptyDict /\ detFiles = EmptyDict /\ domFiles = EmptyDict
  /\ tsFiles = EmptyDict /\ reports = EmptyDict
  /\ now = 1000
  /\ hist = [op |-> "none"]

NextFetch == CallFetch \/ FetchPage \/ CallGetImpervaIncidents

SpecFetch == InitFetch /\ [][NextFetch]_vars

(***************************************************************************)
(* C2: pages are requested 1, 2, 3, ... one at a time; the loop stops at   *)
(* the first page that is short (fewer than page_size incidents) or not    *)
(* 200, no page after it is requested, and the result is the in-order      *)
(* concatenation of the incidents of the successful pages, a single object *)
(* counting as a page of one.                                              *)
(***************************************************************************)
PageItems(response) ==
  IF response.status_code # OK THEN <<>>
  ELSE IF response.json.kind = "dict" THEN <<response.json.obj>>
  ELSE response.json.items

StopsHere(response, ps) ==
  response.status_code # OK \/ Len(PageItems(response)) < ps

RECURSIVE ConcatPages(_)
ConcatPages(rs) ==
  IF rs = <<>> THEN <<>> ELSE PageItems(Head(rs)) \o ConcatPages(Tail(rs))

C2_PaginationOrderAndStop ==
  pc \in {"fetch", "fetched"} =>
    /\ Len(responses) = Len(requests)
    /\ \A i \in DOMAIN requests : requests[i].params.page = i
    /\ \A i \in DOMAIN requests : requests[i].params.page_size = page_size
    /\ \A i \in 1..(Len(responses) - 1) : ~StopsHere(responses[i], page_size)
    /\ pc = "fetch" => \A i \in DOMAIN responses : ~StopsHere(responses[i], page_size)
    /\ pc = "fetched" =>
         /\ responses # <<>>
         /\ StopsHere(responses[Len(responses)], page_size)
    /\ all_incidents = ConcatPages(responses)

\* a call that returned after a full page, a single-object page and a failure
C2_Witness ==
  /\ pc = "fetched"
  /\ page_size = 1
  /\ Len(responses) = 2
  /\ responses[1].status_code = OK /\ responses[1].json.kind = "dict"
  /\ responses[2].status_code # OK
  /\ Len(all_incidents) = 1

(***************************************************************************)
(* C8: with IMPERVA_API_ID or IMPERVA_API_KEY unset, the paginated fetcher *)
(* raises before issuing any HTTP request instead of returning a result.   *)
(***************************************************************************)
C8_MissingCredentialsRaise ==
  (pc \in {"fetch", "fetched"} /\ (~env.IMPERVA_API_ID \/ ~env.IMPERVA_API_KEY))
    => /\ requests = <<>>
       /\ pc = "fetched" => raised

(***************************************************************************)
(* Persistence: save_domains_to_file, save_ip_data_to_file                 *)
(***************************************************************************)
NonBlank(s) == Truthy(strip(s))

\* set(line.strip() for line in f.readlines() if line.strip()), or the empty
\* set when the file does not exist
ReadEntries(files, filename) ==
  IF filename \in DOMAIN files
  THEN {strip(files[filename][i]) :
          i \in {j \in DOMAIN files[filename] : NonBlank(files[filename][j])}}
  ELSE {}

\* the lines written by "for x in sorted(all): if x.strip(): write(x)"
WriteEntries(all) == SelectSeq(sorted(all), NonBlank)

\* json.dump and json.load of a dict of str -> list of str; a file that does
\* not parse is [ok |-> FALSE]
json_dump(d) == [ok |-> TRUE, data |-> d]
Malformed == [ok |-> FALSE]

\* list(s) for a set of tags: the iteration order of a set of str depends on
\* the hash seed of the process, given here as an order ord of all tags
ListOfSet(S, ord) == LET In(t) == t \in S IN SelectSeq(ord, In)
TagOrders == {o \in [1..Cardinality(Tags) -> Tags] : Range(o) = Tags}

\* the new map of domain files and the returned set
save_domains_to_file(files, domains, filename) ==
  LET existing_domains == ReadEntries(files, filename)
      new == {domain \in domains : NonBlank(domain)}
      all_domains == existing_domains \cup new
  IN  [files |-> Put(files, filename, WriteEntries(all_domains)),
       ret |-> all_domains]

\* the new maps of IP list files and IP detail files and the returned set
save_ip_data_to_file(files, detailed, ip_data, filename, detailed_filename, ord) ==
  LET existing_ips == ReadEntries(files, filename)
      new_ips == {ip \in DOMAIN ip_data : NonBlank(ip)}
      all_ips == existing_ips \cup new_ips
      existing_detailed ==
        IF detailed_filename \in DOMAIN detailed /\ detailed[detailed_filename].ok
        THEN detailed[detailed_filename].data
        ELSE EmptyDict
      merged ==
        [ip \in DOMAIN existing_detailed \cup DOMAIN ip_data |->
           IF ip \notin DOMAIN ip_data THEN existing_detailed[ip]
           ELSE IF ip \in DOMAIN existing_detailed
           THEN ListOfSet(Range(existing_detailed[ip]) \cup Range(ip_data[ip]), ord)
           ELSE ip_data[ip]]
  IN  [files |-> Put(files, filename, WriteEntries(all_ips)),
       detailed |-> Put(detailed, detailed_filename, json_dump(merged)),
       ret |-> all_ips]

(***************************************************************************)
(* Direct calls of the two save functions on fixed file names              *)
(***************************************************************************)
IpName == <<"ip.txt">>
DetName == <<"ip.json">>
DomName == <<"domain.txt">>

DomainInputs == SUBSET {<<SP>>, <<SP, 97>>, <<98>>}

IpKeys == {<<>>, <<97>>, <<SP, 97>>}
TagLists == {<<"bot", "bot">>, <<"tor">>}
IpInputs == UNION {[K -> TagLists] : K \in SUBSET IpKeys}

Snapshot == [ip |-> ipFiles, det |-> detFiles, dom |-> domFiles,
             ts |-> tsFiles, rep |-> reports]

Calls == IF "calls" \in DOMAIN hist THEN hist.calls ELSE 0

SameAsLast(op, arg) == hist.op = op /\ hist.arg = arg

CallSaveDomains ==
  /\ Calls < MaxCalls
  /\ \E domains \in DomainInputs :
       LET r == save_domains_to_file(domFiles, domains, DomName)
       IN  /\ domFiles' = r.files
           /\ hist' = [op |-> "save_domains_to_file", arg |-> domains,
                       before |-> Snapshot, ret |-> r.ret,
                       repeat |-> SameAsLast("save_domains_to_file", domains),
                       calls |-> Calls + 1]
  /\ UNCHANGED <<ex, env, fetchVars, ipFiles, detFiles, tsFiles, reports, now>>

CallSaveIpData ==
  /\ Calls < MaxCalls
  /\ \E ip_data \in IpInputs, ord \in TagOrders :
       LET r == save_ip_data_to_file(ipFiles, detFiles, ip_data, IpName, DetName, ord)
       IN  /\ ipFiles' = r.files
           /\ detFiles' = r.detailed
           /\ hist' = [op |-> "save_ip_data_to_file", arg |-> ip_data,
                       before |-> Snapshot, ret |-> r.ret,
                       repeat |-> SameAsLast("save_ip_data_to_file", ip_data),
                       calls |-> Calls + 1]
  /\ UNCHANGED <<ex, env, fetchVars, domFiles, tsFiles, reports, now>>

InitMerge ==
  /\ ex = NoEx
  /\ env = [IMPERVA_API_ID |-> TRUE, IMPERVA_API_KEY |-> TRUE]
  /\ pc = "idle" /\ page = 1 /\ more_incidents = TRUE /\ all_incidents = <<>>
  /\ since_timestamp = <<>> /\ page_size = 1
  /\ requests = <<>> /\ responses = <<>> /\ raised = FALSE
  /\ ipFiles = EmptyDict /\ domFiles = EmptyDict
  /\ detFiles \in {EmptyDict, Put(EmptyDict, DetName, Malformed)}
  /\ tsFiles = EmptyDict /\ reports = EmptyDict
  /\ now = 1000
  /\ hist = [op |-> "none"]

NextMerge == CallSaveDomains \/ CallSaveIpData

SpecMerge == InitMerge /\ [][NextMerge]_vars

(***************************************************************************)
(* C3: merge idempotence.  Calling save_domains_to_file (save_ip_data_to_  *)
(* file) with a dataset D and then again with the same D leaves the domain *)
(* file, the IP list file and the per-IP tag collections of the IP detail  *)
(* file as they were after the first call.                                 *)
(***************************************************************************)
TagSets(detailed) ==
  [n \in DOMAIN detailed |->
     IF detailed[n].ok
     THEN [ip \in DOMAIN detailed[n].data |-> Range(detailed[n].data[ip])]
     ELSE Malformed]

C3_MergeIdempotent ==
  (hist.op \in {"save_domains_to_file", "save_ip_data_to_file"} /\ hist.repeat)
    => /\ domFiles = hist.before.dom
       /\ ipFiles = hist.before.ip
       /\ TagSets(detFiles) = TagSets(hist.before.det)

(***************************************************************************)
(* C4: after any sequence of save calls, no blank string is an entry of    *)
(* the IP list file, a key of the IP detail file or an entry of the domain *)
(* file.                                                                   *)
(***************************************************************************)
C4_NoBlankPersisted ==
  /\ \A n \in DOMAIN ipFiles : \A i \in DOMAIN ipFiles[n] : ~IsBlank(ipFiles[n][i])
  /\ \A n \in DOMAIN domFiles : \A i \in DOMAIN domFiles[n] : ~IsBlank(domFiles[n][i])
  /\ \A n \in DOMAIN detFiles :
       detFiles[n].ok => \A ip \in DOMAIN detFiles[n].data : ~IsBlank(ip)

(***************************************************************************)
(* C6: after a save call the flat file (IP list, domain list) holds        *)
(* exactly the entries it held before the call, none if it did not exist,  *)
(* together with the non-blank new entries, each once, in ascending order, *)
(* and the call returns the set of entries written.                        *)
(***************************************************************************)
HeldBy(files, n) == IF n \in DOMAIN files THEN Range(files[n]) ELSE {}

Ascending(lines) ==
  \A i, j \in DOMAIN lines : i < j => StrLess(lines[i], lines[j])

FlatResult(beforeFiles, afterFiles, n, new, ret) ==
  /\ n \in DOMAIN afterFiles
  /\ Range(afterFiles[n]) = HeldBy(beforeFiles, n) \cup {e \in new : ~IsBlank(e)}
  /\ Ascending(afterFiles[n])
  /\ ret = Range(afterFiles[n])

C6_FlatMergeResult ==
  /\ hist.op = "save_domains_to_file" =>
       FlatResult(hist.before.dom, domFiles, DomName, hist.arg, hist.ret)
  /\ hist.op = "save_ip_data_to_file" =>
       FlatResult(hist.before.ip, ipFiles, IpName, DOMAIN hist.arg, hist.ret)

(***************************************************************************)
(* C7: after save_ip_data_to_file every reputation list of the IP detail   *)
(* file is free of duplicates and is, as a set, the union of the tags      *)
(* stored for the IP before the call (none when the IP or the file was     *)
(* absent or the file malformed) and the tags given in the call; IPs not   *)
(* named in the call keep their list.                                      *)
(***************************************************************************)
NoDuplicates(list) ==
  \A i, j \in DOMAIN list : list[i] = list[j] => i = j

StoredBefore(detailed, n) ==
  IF n \in DOMAIN detailed /\ detailed[n].ok THEN detailed[n].data ELSE EmptyDict

TagsOf(d, ip) == IF ip \in DOMAIN d THEN Range(d[ip]) ELSE {}

C7_DetailMergeResult ==
  hist.op = "save_ip_data_to_file" =>
    LET old == StoredBefore(hist.before.det, DetName)
        cur == detFiles[DetName].data
    IN  /\ detFiles[DetName].ok
        /\ DOMAIN cur = DOMAIN old \cup DOMAIN hist.arg
        /\ \A ip \in DOMAIN cur :
             /\ NoDuplicates(cur[ip])
             /\ Range(cur[ip]) = TagsOf(old, ip) \cup TagsOf(hist.arg, ip)
             /\ ip \notin DOMAIN hist.arg => cur[ip] = old[ip]

(***************************************************************************)
(* Watermark store: save_last_query_timestamp, get_last_query_timestamp    *)
(***************************************************************************)
Digit0 == 48

\* str(n) for n >= 0, as code points
RECURSIVE IntToStr(_)
IntToStr(n) ==
  IF n < 10 THEN <<Digit0 + n>>
  ELSE IntToStr(n \div 10) \o <<Digit0 + (n % 10)>>

IsDigits(s) == s # <<>> /\ \A i \in DOMAIN s : s[i] \in Digit0..(Digit0 + 9)

\* int(s) for a string of digits
RECURSIVE StrToInt(_)
StrToInt(s) ==
  IF s = <<>> THEN 0
  ELSE 10 * StrToInt(SubSeq(s, 1, Len(s) - 1)) + (s[Len(s)] - Digit0)

\* the file names of one run, from its strftime("%Y-%m-%d-%H%M%S") stamp
DefaultTsName == <<"last_query_timestamp.txt">>
StampedName(timestamp, base) == <<timestamp, base>>

\* the second the clock shows
Stamp(ms) == ms \div 1000

\* the new map of watermark files: the file holds str(timestamp)
save_last_query_timestamp(files, timestamp, filename) ==
  Put(files, filename, IntToStr(timestamp))

\* the stored integer, None (<<>>) without a file, or a ValueError
get_last_query_timestamp(files, filename) ==
  IF filename \in DOMAIN files
  THEN IF IsDigits(strip(files[filename]))
       THEN [raised |-> FALSE, value |-> <<StrToInt(strip(files[filename]))>>]
       ELSE [raised |-> TRUE, value |-> <<>>]
  ELSE [raised |-> FALSE, value |-> <<>>]

\* the report file: the counts it prints
create_summary_report(files, ip_count, domain_count, incident_count, timestamp) ==
  Put(files, StampedName(timestamp, "summary.txt"),
      [ip_count |-> ip_count, domain_count |-> domain_count,
       incident_count |-> incident_count])

(***************************************************************************)
(* The main program                                                        *)
(***************************************************************************)
DefaultPageSize == 1   \* stands for the default page_size of 100
TickMs == 500          \* the clock advances in steps of this many ms

\* "if incidents:"
HasIncidentsAlways(incidents) == TRUE

HasIncidents(incidents) == incidents # <<>>

\* the bookkeeping of runs: the watermark saved by the last run that saved
\* one, its stamp, and everything extracted so far
NoRuns == [op |-> "none", before |-> <<>>, saved |-> <<>>, stamp |-> <<>>,
           ips |-> {}, domains |-> {}]

\* lines 501-508: read the watermark, enter the fetcher
RunStart ==
  /\ pc = "idle"
  /\ LET last == get_last_query_timestamp(tsFiles, DefaultTsName)
     IN  IF last.raised
         THEN /\ raised' = TRUE
              /\ pc' = "idle"
              /\ UNCHANGED <<page, more_incidents, all_incidents, since_timestamp,
                             page_size, requests, responses>>
         ELSE /\ StartFetch(last.value, DefaultPageSize)
              /\ pc' = "fetch"
  /\ hist' = [hist EXCEPT !.op = "run", !.before = Snapshot]
  /\ UNCHANGED <<ex, env, fileVars, now>>

\* lines 510-541: process and persist what was fetched, or only warn
RunFinish ==
  /\ pc = "fetched"
  /\ pc' = "idle"
  /\ IF HasIncidents(all_incidents)
     THEN \E ord \in TagOrders :
            LET current_timestamp == now
                e == extract_data_from_incidents(JList(all_incidents))
                timestamp == Stamp(now)
                r == save_ip_data_to_file(ipFiles, detFiles, e.ip_data,
                       StampedName(timestamp, "ip_data.txt"),
                       StampedName(timestamp, "ip_detailed.json"), ord)
                d == save_domains_to_file(domFiles, e.domains,
                       StampedName(timestamp, "domain_data.txt"))
            IN  /\ ipFiles' = r.files
                /\ detFiles' = r.detailed
                /\ domFiles' = d.files
                /\ tsFiles' = save_last_query_timestamp(tsFiles, current_timestamp,
                                StampedName(timestamp, "last_query_timestamp.txt"))
                /\ reports' = create_summary_report(reports, Cardinality(r.ret),
                                Cardinality(d.ret), Len(all_incidents), timestamp)
                /\ hist' = [hist EXCEPT !.op = "ran",
                                        !.saved = <<current_timestamp>>,
                                        !.stamp = <<timestamp>>,
                                        !.ips = @ \cup DOMAIN e.ip_data,
                                        !.domains = @ \cup e.domains]
     ELSE /\ UNCHANGED fileVars
          /\ hist' = [hist EXCEPT !.op = "ran"]
  /\ UNCHANGED <<ex, env, page, more_incidents, all_incidents, since_timestamp,
                 page_size, requests, responses, raised, now>>

\* time passes
Tick ==
  /\ now + TickMs <= MaxNow
  /\ now' = now + TickMs
  /\ UNCHANGED <<ex, env, fetchVars, fileVars, hist>>

Init ==
  /\ ex = NoEx
  /\ env = [IMPERVA_API_ID |-> TRUE, IMPERVA_API_KEY |-> TRUE]
  /\ pc = "idle" /\ page = 1 /\ more_incidents = TRUE /\ all_incidents = <<>>
  /\ since_timestamp = <<>> /\ page_size = DefaultPageSize
  /\ requests = <<>> /\ responses = <<>> /\ raised = FALSE
  /\ ipFiles = EmptyDict /\ detFiles = EmptyDict /\ domFiles = EmptyDict
  /\ tsFiles \in {EmptyDict,
                  Put(EmptyDict, DefaultTsName, IntToStr(700)),
                  Put(EmptyDict, DefaultTsName, <<97>>)}
  /\ reports = EmptyDict
  /\ now = 1000
  /\ hist = NoRuns

Next == RunStart \/ FetchPage \/ RunFinish \/ Tick

Spec == Init /\ [][Next]_vars

(***************************************************************************)
(* C1: watermark hand-off.  After a run that fetched at least one incident *)
(* and saved watermark W, the next run's get_last_query_timestamp returns  *)
(* W and every page request of that run carries from=W.                    *)
(***************************************************************************)
C1_WatermarkHandOff ==
  (hist.saved # <<>> /\ hist.op = "run" /\ pc \in {"fetch", "fetched"})
    => /\ since_timestamp = hist.saved
       /\ \A i \in DOMAIN requests :
            /\ "from" \in DOMAIN requests[i].params
            /\ requests[i].params.from = hist.saved[1]

(***************************************************************************)
(* C5: datasets accumulate across runs.  The IP list, IP detail data and   *)
(* domain list written by the latest data-producing run contain every      *)
(* non-blank IP and domain extracted by every run so far.                  *)
(***************************************************************************)
C5_DatasetsAccumulate ==
  hist.stamp # <<>> =>
    LET ipN == StampedName(hist.stamp[1], "ip_data.txt")
        detN == StampedName(hist.stamp[1], "ip_detailed.json")
        domN == StampedName(hist.stamp[1], "domain_data.txt")
    IN  /\ ipN \in DOMAIN ipFiles /\ hist.ips \subseteq Range(ipFiles[ipN])
        /\ detN \in DOMAIN detFiles /\ detFiles[detN].ok
        /\ hist.ips \subseteq DOMAIN detFiles[detN].data
        /\ domN \in DOMAIN domFiles /\ hist.domains \subseteq Range(domFiles[domN])

(***************************************************************************)
(* C10: a run whose fetch returns no incident leaves every persisted       *)
(* artefact unchanged: no IP list, IP detail, domain or watermark file is  *)
(* created or modified and no summary report is written.                   *)
(***************************************************************************)
C10_EmptyRunChangesNothing ==
  (hist.op = "ran" /\ all_incidents = <<>>) =>
    /\ ipFiles = hist.before.ip
    /\ detFiles = hist.before.det
    /\ domFiles = hist.before.dom
    /\ tsFiles = hist.before.ts
    /\ reports = hist.before.rep

\* an empty run, made of a request that failed, after a run that wrote files
C10_Witness ==
  /\ hist.op = "ran"
  /\ pc = "idle"
  /\ all_incidents = <<>>
  /\ requests # <<>>
  /\ ipFiles # EmptyDict /\ reports # EmptyDict

(***************************************************************************)
(* C11: the watermark only marks successfully processed data.  A run whose *)
(* pagination was cut short by a non-200 status after at least one page    *)
(* succeeded saves no new watermark, so the unfetched pages stay inside    *)
(* the next run's fetch window.                                            *)
(***************************************************************************)
CutShort ==
  /\ Len(responses) >= 2
  /\ responses[Len(responses)].status_code # OK
  /\ \E i \in DOMAIN responses : responses[i].status_code = OK

C11_NoWatermarkAfterCutShort ==
  (hist.op = "ran" /\ CutShort) => tsFiles = hist.before.ts

=============================================================================
